---- MODULE Spec2Model ----
(***************************************************************************)
(* A model of restarter.py: the AppRestarter context manager (stop a named *)
(* application on __enter__, relaunch it on __exit__), the two platform    *)
(* implementations of stop (mac_quit_app, win_quit_pids), the Windows      *)
(* launch-target resolution, and the `with AppRestarter(...)` blocks of    *)
(* the CLI that drive it; and of elgato_prompter_text.py: the prompt       *)
(* directory and AppSettings.json (the record store), the add, del, gen    *)
(* and ls commands, and main, which brackets them with the restarter.      *)
(*                                                                         *)
(* Time is counted in units of 100 ms: time.sleep(0.3) is SleepTicks = 3   *)
(* units, timeout_s ranges over 0..MaxTimeout units.  The operating system *)
(* is the environment: the process table (alive), the installed inventory  *)
(* (Spotlight hit, bundle id, shortcuts, packaged apps), and the outcome   *)
(* of each query or command, which may fail.                               *)
(*                                                                         *)
(* Spec is the scope used by any invoker, LiveSpec adds the fairness of    *)
(* stop's own steps, LocateSpec is scope entry on macOS over what          *)
(* Spotlight may print, StoreSpec is a sequence of add and del commands,   *)
(* IndexSpec an add without --index on a filled directory, CliSpec one run *)
(* of main.                                                                *)
(***************************************************************************)
EXTENDS Integers, Sequences, FiniteSets, TLC

\* ------------------------------------------------------------------ bounds
MaxPids == 2
MaxTimeout == 4
MaxIndex == 2
MaxHits == 2

\* ------------------------------------------------------- program constants
SleepTicks == 3

Pids == 1..MaxPids
None == "None"
SearchText == "Camera Hub"
BundleId == "com.elgato.CameraHub"
LnkTarget == "C:/Program Files/Elgato/CameraHub/Camera Hub.exe"
AppUserModelId == "Elgato.CameraHub_App"
WorkErrors == {"ValueError", "OSError"}
NoInfo == <<>>

\* What Spotlight may print for the search text: a directory, a file stem
\* and a suffix each.
Dirs == {"/Applications/", "/System/Applications/", "/Users/u/Applications/",
         "/Users/u/"}
Stems == {"Camera Hub", "camera hub 2", "Elgato Camera Hub", "Photo Booth"}
Exts == {".app", ".txt"}
Hits == [dir : Dirs, stem : Stems, ext : Exts]
NoPath == [dir |-> "", stem |-> "", ext |-> ""]
CameraHubApp == [dir |-> "/Applications/", stem |-> "Camera Hub", ext |-> ".app"]
CameraHubNotes == [dir |-> "/Users/u/", stem |-> "Camera Hub", ext |-> ".txt"]

\* The command lines tried: values of --guid, what uuid4 may return (upper
\* case), values of --name, the name gen gives its prompt, values of --file
\* and of --index.
GuidArgs == {"ab", "AB"}
Uuids == {"AB", "CD"}
Names == {"Intro", "intro ", "Outro"}
GenName == "Generated prompt for T"
FileArgs == {"AB.json", "ab.json"}
IndexArgs == {-1, MaxIndex}

VARIABLES
    platform,               \* self._platform: "mac", "win" or "other"
    timeout_s,              \* self.timeout_s
    force_after_timeout,    \* self.force_after_timeout
    restart_if_not_running, \* self.restart_if_not_running
    should_restart,         \* self._should_restart
    launch_info,            \* self._launch_info
    pc,                     \* position of the invoking process
    pids,                   \* __enter__ (win): the matched pids, in query order
    exe_from_running,       \* __enter__ (win): the captured executable path
    deadline,               \* mac_quit_app / win_quit_pids: deadline
    slept,                  \* units of the current time.sleep(0.3) already slept
    now,                    \* time.time()
    alive,                  \* OS: the running processes of the application
    hits,                   \* OS: the paths mdfind prints, in its order
    mdfind_hit,             \* OS: Spotlight has a hit ending in ".app"
    mdls_out,               \* OS: what mdls prints ("fail": non-zero exit)
    exe_path_known,         \* OS: the pids whose ExecutablePath is readable
    has_lnk,                \* OS: a Start Menu shortcut matches
    has_uwp,                \* OS: a Get-StartApps entry matches
    has_ps,                 \* OS: powershell or pwsh is on the PATH
    app_path,               \* __enter__ (mac): what mac_mdfind_app returned
    was_running,            \* history: the instances observed running at entry
    quit_issued,            \* history: a graceful quit/close request was sent
    kill_issued,            \* history: a force-kill was sent (os.kill / Stop-Process)
    kill_sent,              \* history: the pids a force-kill was sent to
    alive_at_kill,          \* history: the processes alive when the force step ran
    os_failed,              \* history: a query or command of stop failed
    stopped_at,             \* history: when the last instance exited (-1: none yet)
    tick_due,               \* history: the first poll tick at or after stopped_at
    returned_at,            \* history: when stop returned (-1: not, or not yet)
    launches,               \* history: the launch_info of every launch attempted
    launch_failed,          \* history: a launch attempt raised
    work_ran,               \* history: how the with-body ended ("none": never ran)
    work_exc,               \* history: the error the with-body raised
    running_at_work,        \* history: the processes alive when the body started
    session_at_work,        \* history: (should_restart, launch_info) at body start
    running_at_quit,        \* history: the processes alive when stop was called
    enter_exc,              \* the error __enter__ raised
    seen_exc,               \* the error the invoker of the with-statement observes
    cmd,                    \* main: ns.cmd (None: the scope is used by other code)
    store,                  \* the prompt directory and AppSettings.json
    prev,                   \* history: the store before the last command
    last                    \* history: the last command, its arguments and result

cfg == <<platform, timeout_s, force_after_timeout, restart_if_not_running>>
inventory == <<hits, mdfind_hit, mdls_out, exe_path_known, has_lnk, has_uwp, has_ps>>
self_state == <<should_restart, launch_info>>
stop_locals == <<pids, exe_from_running, deadline, slept>>
stop_hist ==
    <<quit_issued, kill_issued, kill_sent, alive_at_kill, os_failed, returned_at,
      running_at_quit>>
body_hist == <<work_ran, work_exc, running_at_work, session_at_work>>
exit_hist == <<launches, launch_failed, seen_exc>>

cli == <<cmd, store, prev, last>>
session ==
    <<cfg, inventory, app_path, self_state, stop_locals, stop_hist, body_hist,
      exit_hist, pc, now, alive, was_running, stopped_at, tick_due, enter_exc>>

vars == <<session, cli>>

\* ----------------------------------------------------------------- helpers
Range(s) == {s[i] : i \in DOMAIN s}

Min(S) == CHOOSE x \in S : \A y \in S : x <= y

Max(S) == CHOOSE x \in S : \A y \in S : x >= y

\* The process query lists the matching pids in increasing order.
RECURSIVE Listed(_)
Listed(S) == IF S = {} THEN <<>> ELSE <<Min(S)>> \o Listed(S \ {Min(S)})

PathOf(p) == "C:/app/instance" \o ToString(p) \o ".exe"

\* ------------------------------------------------- the macOS implementation
\* str(p) of a hit.
path_str(p) == p.dir \o p.stem \o p.ext

\* path_str.startswith("/Applications/") or
\* path_str.startswith("/System/Applications/").
in_std_dir(p) == p.dir \in {"/Applications/", "/System/Applications/"}

\* str.lower() on the stems and the search text tried.
lower(t) ==
    CASE t = "Camera Hub" -> "camera hub"
      [] t = "Elgato Camera Hub" -> "elgato camera hub"
      [] t = "Photo Booth" -> "photo booth"
      [] OTHER -> t

\* name.startswith(s) and `s in name`, for the lower-cased search text s.
startswith(name, s) == s = "camera hub" /\ name \in {"camera hub", "camera hub 2"}
contains(name, s) ==
    s = "camera hub" /\ name \in {"camera hub", "camera hub 2", "elgato camera hub"}

\* score(p): the sort key of mac_mdfind_app.
score(p) ==
    LET s == lower(SearchText)
        name == lower(p.stem)
    IN  <<IF in_std_dir(p) THEN 2 ELSE 0,
          IF startswith(name, s) THEN 2 ELSE 0,
          IF contains(name, s) THEN 1 ELSE 0,
          0 - Len(path_str(p))>>

\* Python's order on tuples of equal length.
tuple_gt(a, b) ==
    \E i \in DOMAIN a : a[i] > b[i] /\ \A j \in 1..(i - 1) : a[j] = b[j]

\* Mutant of key_gt: the scores are compared by their total, the path length
\* breaking ties.
key_gt_by_total(a, b) ==
    \/ a[1] + a[2] + a[3] > b[1] + b[2] + b[3]
    \/ a[1] + a[2] + a[3] = b[1] + b[2] + b[3] /\ a[4] > b[4]

\* hits.sort(key=score, reverse=True): when one key comes before another.
key_gt(a, b) == tuple_gt(a, b)

\* mac_mdfind_app: the first of the hits ending in ".app" after the stable
\* sort by decreasing score; NoPath (None) when there is none.
mac_mdfind_app(out) ==
    LET found == SelectSeq(out, LAMBDA p : p.ext = ".app")
        best == {i \in DOMAIN found :
                    \A j \in DOMAIN found : ~key_gt(score(found[j]), score(found[i]))}
    IN  IF found = <<>> THEN NoPath ELSE found[Min(best)]

\* mac_count_running_procs: the count osascript prints, 0 when it prints none.
mac_count_running_procs(running, fail) == IF fail THEN 0 ELSE Cardinality(running)

\* mac_pids_for: the unix ids osascript prints, none when it prints nothing.
mac_pids_for(running, fail) == IF fail THEN {} ELSE running

\* Mutant of MacEnterError: the `if not app_path` check is missing.
MacEnterErrorNoHitCheck(hit, mdls) ==
    IF mdls = "fail" THEN "CalledProcessError"
    ELSE IF mdls = "" \/ mdls = "(null)" THEN "IdentityUnresolvable"
    ELSE None

\* __enter__, mac branch: the error raised before anything is stopped.
MacEnterError(hit, mdls) ==
    IF ~hit THEN "NotFound"
    ELSE IF mdls = "fail" THEN "CalledProcessError"
    ELSE IF mdls = "" \/ mdls = "(null)" THEN "IdentityUnresolvable"
    ELSE None

\* ----------------------------------------------- the Windows implementation
\* win_exec_path_for_pid: the process's ExecutablePath, None when empty.
win_exec_path_for_pid(pid, running, known) ==
    IF pid \in running /\ pid \in known THEN PathOf(pid) ELSE None

\* Mutant of FirstExePath: the path of the last matched pid that has one.
LastExePath(found, running, known) ==
    LET withPath == {i \in DOMAIN found :
                        win_exec_path_for_pid(found[i], running, known) # None}
    IN  IF withPath = {} THEN None
        ELSE win_exec_path_for_pid(found[Max(withPath)], running, known)

\* __enter__, win branch: the path of the first matched pid that has one.
FirstExePath(found, running, known) ==
    LET withPath == {i \in DOMAIN found :
                        win_exec_path_for_pid(found[i], running, known) # None}
    IN  IF withPath = {} THEN None
        ELSE win_exec_path_for_pid(found[Min(withPath)], running, known)

\* Mutant of win_resolve_launch_target: the Start Menu shortcut is tried before
\* the path captured from the running instance.
win_resolve_launch_target_lnk_first(search, fallback_from_pid, lnk, uwp) ==
    LET lnk_target == IF lnk THEN LnkTarget ELSE ""
        appid == IF uwp THEN AppUserModelId ELSE ""
    IN  IF lnk_target # "" THEN <<"exe", lnk_target>>
        ELSE IF fallback_from_pid # None THEN <<"exe", fallback_from_pid>>
        ELSE IF appid # "" THEN <<"uwp", appid>>
        ELSE <<"alias", search>>

\* win_resolve_launch_target: (mode, value), first match wins.
win_resolve_launch_target(search, fallback_from_pid, lnk, uwp) ==
    LET lnk_target == IF lnk THEN LnkTarget ELSE ""
        appid == IF uwp THEN AppUserModelId ELSE ""
    IN  IF fallback_from_pid # None THEN <<"exe", fallback_from_pid>>
        ELSE IF lnk_target # "" THEN <<"exe", lnk_target>>
        ELSE IF appid # "" THEN <<"uwp", appid>>
        ELSE <<"alias", search>>

\* self._launch_info = ("win", mode, target)
WinLaunchInfo(fallback_from_pid) ==
    <<"win">>
        \o win_resolve_launch_target(SearchText, fallback_from_pid, has_lnk, has_uwp)

\* ------------------------------------------------------------ AppRestarter
\* Mutant of EnterShouldRestart: restart_if_not_running is ignored.
EnterShouldRestartDropsFlag(found_running, flag) == found_running

\* __enter__: self._should_restart, from whether an instance was found running.
EnterShouldRestart(found_running, flag) == IF found_running THEN TRUE ELSE flag

\* Mutant of ExitLaunches: self._should_restart is not consulted.
ExitLaunchesAlways(restart, info) == info # NoInfo

\* Mutant of ExitLaunches: no relaunch when the with-body raised.
ExitLaunchesUnlessRaised(restart, info) ==
    ~(~restart \/ info = NoInfo) /\ work_exc = None

\* __exit__: whether the launch is attempted.
ExitLaunches(restart, info) == ~(~restart \/ info = NoInfo)

\* Mutant of ExitOutcome: __exit__ returns True.
ExitOutcomeSuppresses(try_exc) == [raised |-> None, ret |-> TRUE]

\* Mutant of ExitOutcome: no `return` in the finally block, so what the try
\* block raised leaves __exit__.
ExitOutcomeNoFinallyReturn(try_exc) == [raised |-> try_exc, ret |-> FALSE]

\* __exit__: `finally: return False` discards whatever the try block raised.
ExitOutcome(try_exc) == [raised |-> None, ret |-> FALSE]

\* The with-statement: what leaves the block, given what the body raised and
\* what __exit__ raised or returned.
WithPropagates(body_exc, out) ==
    IF out.raised # None THEN out.raised
    ELSE IF body_exc # None /\ ~out.ret THEN body_exc
    ELSE None

\* ------------------------------------------------------- the record store
\* str.upper() on the GUIDs tried.
upper(g) == CASE g = "ab" -> "AB" [] OTHER -> g

\* str.strip().lower() on the names tried.
name_norm(n) ==
    CASE n = "Intro" -> "intro"
      [] n = "intro " -> "intro"
      [] n = "Outro" -> "outro"
      [] n = GenName -> "generated prompt for t"
      [] OTHER -> n

\* A directory with no *.json file.
EmptyFiles == [f \in {} |-> None]

\* AppSettings.json is absent, or holds no library list, or an empty one.
EmptySettings ==
    {[exists |-> e, has_key |-> k, lst |-> <<>>] : e, k \in BOOLEAN} \
        {[exists |-> FALSE, has_key |-> TRUE, lst |-> <<>>]}

\* An empty prompt directory (or none yet) and empty settings.
EmptyStores ==
    {[dir_exists |-> d, files |-> EmptyFiles, settings |-> s] :
        d \in BOOLEAN, s \in EmptySettings}

NoCmd ==
    [cmd |-> None, friendly_name |-> None, yes |-> FALSE, dry_run |-> FALSE,
     rc |-> -1]

\* load_prompt: the record when it is one with the required keys, nothing
\* (None) otherwise.  The chapters of a record are not modelled.
load_prompt(data) ==
    IF {"GUID", "friendlyName", "index"} \subseteq DOMAIN data THEN {data} ELSE {}

\* The files load_prompt accepts.
ValidFiles(files) == {f \in DOMAIN files : load_prompt(files[f]) # {}}

\* A *.json file of the directory that is no prompt record.
Foreign == [index |-> 9]

\* next_index: max_idx starts at 0 and rises to each larger index of a valid
\* record; the result is max_idx + 1.
next_index(files) == Max({files[f].index : f \in ValidFiles(files)} \cup {0}) + 1

\* ensure_dir: mkdir(parents=True, exist_ok=True).
ensure_dir(st) == [st EXCEPT !.dir_exists = TRUE]

\* load_settings followed by settings.get(SETTINGS_KEY): [] unless a list.
settings_list(s) == IF s.exists /\ s.has_key THEN s.lst ELSE <<>>

\* Mutant of settings_add_guid: the GUID is appended even when already listed.
settings_add_guid_always(s, guid) ==
    [exists |-> TRUE, has_key |-> TRUE,
     lst |-> Append(settings_list(s), upper(guid))]

\* settings_add_guid: append the upper-cased GUID unless listed, and save.
settings_add_guid(s, guid) ==
    LET lst == settings_list(s)
        guid_up == upper(guid)
    IN  [exists |-> TRUE, has_key |-> TRUE,
         lst |-> IF guid_up \in Range(lst) THEN lst ELSE Append(lst, guid_up)]

\* settings_remove_guids: drop the listed GUIDs, compared in upper case, and save.
settings_remove_guids(s, guids) ==
    LET to_remove == {upper(g) : g \in guids}
    IN  [exists |-> TRUE, has_key |-> TRUE,
         lst |-> SelectSeq(settings_list(s), LAMBDA g : upper(g) \notin to_remove)]

\* write_prompt_file: <GUID in upper case>.json, created or overwritten.
write_prompt_file(files, data) ==
    LET filename == upper(data.GUID) \o ".json"
    IN  [f \in DOMAIN files \cup {filename} |->
            IF f = filename THEN data ELSE files[f]]

\* find_matches: the files matching any of the selectors given.
find_matches(files, guid, friendly_name, filename) ==
    {f \in ValidFiles(files) :
        \/ guid # None /\ upper(files[f].GUID) = upper(guid)
        \/ filename # None /\ f = filename
        \/ friendly_name # None
              /\ name_norm(files[f].friendlyName) = name_norm(friendly_name)}

\* The arguments of add: chapters is whether any chapter was given, index is
\* <<i>> for --index i and <<>> without it, uuid is what generate_guid()
\* returns if it is called.
AddArgsSet ==
    [friendly_name : Names, chapters : BOOLEAN,
     index : {<<>>} \cup {<<i>> : i \in IndexArgs},
     guid : {None} \cup GuidArgs, uuid : Uuids, dry_run : BOOLEAN]

\* The arguments gen passes to cmd_add.
GenArgsSet ==
    [friendly_name : {GenName}, chapters : BOOLEAN, index : {<<>>},
     guid : {None}, uuid : Uuids, dry_run : {FALSE}]

DelArgsSet ==
    [guid : {None} \cup GuidArgs, friendly_name : {None} \cup Names,
     filename : {None} \cup FileArgs, yes : BOOLEAN]

\* cmd_add: the index and the GUID the new prompt gets.
AddIndex(st, a) == IF a.index # <<>> THEN a.index[1] ELSE next_index(st.files)
AddGuid(a) == upper(IF a.guid # None THEN a.guid ELSE a.uuid)

\* Indexes are modelled up to MaxIndex.
AddInBounds(st, a) == AddIndex(st, a) <= MaxIndex

\* Mutant of cmd_add: dry_run is not consulted.
cmd_add_ignores_dry_run(st, a) ==
    LET st1 == ensure_dir(st)
        data == [GUID |-> AddGuid(a), friendlyName |-> a.friendly_name,
                 index |-> AddIndex(st1, a)]
    IN  IF ~a.chapters THEN [store |-> st1, rc |-> 2]
        ELSE [store |-> [st1 EXCEPT
                            !.files = write_prompt_file(st1.files, data),
                            !.settings = settings_add_guid(st1.settings, data.GUID)],
              rc |-> 0]

\* cmd_add: the store it leaves and the code it returns.
cmd_add(st, a) ==
    LET st1 == ensure_dir(st)
        data == [GUID |-> AddGuid(a), friendlyName |-> a.friendly_name,
                 index |-> AddIndex(st1, a)]
    IN  IF ~a.chapters THEN [store |-> st1, rc |-> 2]
        ELSE IF a.dry_run THEN [store |-> st1, rc |-> 0]
        ELSE [store |-> [st1 EXCEPT
                            !.files = write_prompt_file(st1.files, data),
                            !.settings = settings_add_guid(st1.settings, data.GUID)],
              rc |-> 0]

\* The files whose unlink may raise: none, or one of them.
Undeletable(files) == {{}} \cup {{f} : f \in DOMAIN files}

\* cmd_del: the store it leaves and the code it returns; undeletable are the
\* files whose unlink raises.
cmd_del(st, a, undeletable) ==
    LET st1 == ensure_dir(st)
        matches == find_matches(st1.files, a.guid, a.friendly_name, a.filename)
        unique_names == {st1.files[f].friendlyName : f \in matches}
        deleted == matches \ undeletable
        removed_guids == {upper(st1.files[f].GUID) : f \in deleted}
    IN  IF a.guid = None /\ a.friendly_name = None /\ a.filename = None
        THEN [store |-> st1, rc |-> 2]
        ELSE IF matches = {} THEN [store |-> st1, rc |-> 1]
        ELSE IF /\ a.friendly_name # None
                /\ Cardinality(matches) > 1
                /\ Cardinality(unique_names) > 1
                /\ ~a.yes
        THEN [store |-> st1, rc |-> 3]
        ELSE [store |->
                [st1 EXCEPT
                    !.files = [f \in DOMAIN st1.files \ deleted |-> st1.files[f]],
                    !.settings = IF removed_guids # {}
                                 THEN settings_remove_guids(st1.settings, removed_guids)
                                 ELSE st1.settings],
              rc |-> IF deleted # {} THEN 0 ELSE 1]

\* What the history keeps of an add and of a del.
AddRecord(a, rc) ==
    [cmd |-> "add", friendly_name |-> a.friendly_name, yes |-> FALSE,
     dry_run |-> a.dry_run, rc |-> rc]
DelRecord(a, rc) ==
    [cmd |-> "del", friendly_name |-> a.friendly_name, yes |-> a.yes,
     dry_run |-> FALSE, rc |-> rc]

\* -------------------------------------------------------------------- Init
\* A new AppRestarter and the operating system it finds.
SessionInit ==
    /\ platform \in {"mac", "win", "other"}
    /\ timeout_s \in 0..MaxTimeout
    /\ force_after_timeout \in BOOLEAN
    /\ restart_if_not_running \in BOOLEAN
    /\ should_restart = FALSE
    /\ launch_info = NoInfo
    /\ pids = <<>>
    /\ exe_from_running = None
    /\ deadline = 0
    /\ slept = 0
    /\ now = 0
    /\ alive \in (IF platform = "other" THEN {{}} ELSE {1..n : n \in 0..MaxPids})
    /\ mdfind_hit = (\E i \in DOMAIN hits : hits[i].ext = ".app")
    /\ mdls_out \in (IF platform = "mac" /\ mdfind_hit
                     THEN {BundleId, "", "(null)", "fail"} ELSE {""})
    /\ exe_path_known \in (IF platform = "win" THEN SUBSET alive ELSE {{}})
    /\ has_lnk \in (IF platform = "win" THEN BOOLEAN ELSE {FALSE})
    /\ has_uwp \in (IF platform = "win" THEN BOOLEAN ELSE {FALSE})
    /\ has_ps \in (IF platform = "win" THEN BOOLEAN ELSE {TRUE})
    /\ app_path = NoPath
    /\ was_running = {}
    /\ quit_issued = FALSE
    /\ kill_issued = FALSE
    /\ kill_sent = {}
    /\ alive_at_kill = {}
    /\ os_failed = FALSE
    /\ stopped_at = -1
    /\ tick_due = -1
    /\ returned_at = -1
    /\ launches = <<>>
    /\ launch_failed = FALSE
    /\ work_ran = "none"
    /\ work_exc = None
    /\ running_at_work = {}
    /\ session_at_work = <<FALSE, NoInfo>>
    /\ running_at_quit = {}
    /\ enter_exc = None
    /\ seen_exc = None

\* The scope used by any invoker, with any arguments.
Init ==
    /\ hits \in {<<>>, <<CameraHubNotes>>, <<CameraHubApp>>}
    /\ SessionInit
    /\ platform # "mac" => hits = <<>>
    /\ pc = "idle"
    /\ cmd = None
    /\ store \in {s \in EmptyStores : ~s.dir_exists /\ ~s.settings.exists}
    /\ prev = store
    /\ last = NoCmd

\* ----------------------------------------------------------------- actions
\* __enter__ raises: the with-body is skipped and __exit__ is not called.
EnterRaises(err) ==
    /\ enter_exc' = err
    /\ seen_exc' = err
    /\ pc' = "enter_failed"
    /\ UNCHANGED <<cli, cfg, inventory, self_state, stop_locals, stop_hist, body_hist,
                   launches, launch_failed, now, alive, was_running, stopped_at,
                   tick_due>>

\* Mutant of MacEnter: the quit request is sent as soon as a bundle is matched,
\* before its identifier is checked.
MacEnterQuitsFirst ==
    /\ pc = "idle"
    /\ platform = "mac"
    /\ app_path' = mac_mdfind_app(hits)
    /\ IF app_path' = NoPath
       THEN EnterRaises("NotFound")
       ELSE LET err == MacEnterError(TRUE, mdls_out)
            IN  /\ quit_issued' = TRUE
                /\ running_at_quit' = alive
                /\ IF err # None
                   THEN /\ enter_exc' = err
                        /\ seen_exc' = err
                        /\ pc' = "enter_failed"
                        /\ UNCHANGED <<launch_info, was_running, deadline>>
                   ELSE /\ launch_info' = <<"mac", mdls_out>>
                        /\ was_running' = alive
                        /\ deadline' = now + timeout_s
                        /\ pc' = "poll"
                        /\ UNCHANGED <<enter_exc, seen_exc>>
                /\ UNCHANGED <<cli, cfg, inventory, should_restart, pids, exe_from_running,
                               slept, kill_issued, kill_sent, alive_at_kill, os_failed,
                               returned_at, body_hist, launches, launch_failed, now,
                               alive, stopped_at, tick_due>>

\* __enter__ on macOS, up to the call of mac_quit_app.
MacEnter ==
    /\ pc = "idle"
    /\ platform = "mac"
    /\ app_path' = mac_mdfind_app(hits)
    /\ LET err == MacEnterError(app_path' # NoPath, mdls_out)
       IN  IF err # None
           THEN EnterRaises(err)
           ELSE \E fail \in BOOLEAN :
                  LET found_running == mac_count_running_procs(alive, fail) > 0
                  IN  /\ launch_info' = <<"mac", mdls_out>>
                      /\ was_running' = IF found_running THEN alive ELSE {}
                      /\ should_restart' =
                            IF found_running THEN should_restart
                            ELSE EnterShouldRestart(FALSE, restart_if_not_running)
                      /\ pc' = IF found_running THEN "quit" ELSE "active"
                      /\ UNCHANGED <<cli, cfg, inventory, stop_locals, stop_hist, body_hist,
                                     exit_hist, now, alive, stopped_at, tick_due, enter_exc>>

\* __enter__ on Windows, up to the call of win_quit_pids.
WinEnter ==
    /\ pc = "idle"
    /\ platform = "win"
    /\ UNCHANGED app_path
    /\ IF ~has_ps
       THEN EnterRaises("PowerShellNotFound")
       ELSE
       \E fail \in BOOLEAN :
          LET found == IF fail THEN <<>> ELSE Listed(alive)
          IN  /\ pids' = found
              /\ was_running' = Range(found)
              /\ IF found # <<>>
                 THEN /\ exe_from_running' = FirstExePath(found, alive, exe_path_known)
                      /\ pc' = "quit"
                      /\ UNCHANGED self_state
                 ELSE /\ exe_from_running' = None
                      /\ should_restart' = EnterShouldRestart(FALSE, restart_if_not_running)
                      /\ launch_info' = WinLaunchInfo(None)
                      /\ pc' = "active"
              /\ UNCHANGED <<cli, cfg, inventory, deadline, slept, stop_hist, body_hist,
                             exit_hist, now, alive, stopped_at, tick_due, enter_exc>>

\* __enter__ on any other platform.
OtherEnter ==
    /\ pc = "idle"
    /\ platform = "other"
    /\ UNCHANGED app_path
    /\ EnterRaises("UnsupportedPlatform")

\* The rest of __enter__ once stop has returned.
AfterStop ==
    /\ returned_at' = now
    /\ should_restart' = EnterShouldRestart(TRUE, restart_if_not_running)
    /\ launch_info' = IF platform = "mac" THEN launch_info
                      ELSE WinLaunchInfo(exe_from_running)
    /\ pc' = "active"

\* mac_quit_app / win_quit_pids: the graceful request and the deadline.
StopQuit ==
    /\ pc = "quit"
    /\ running_at_quit' = alive
    /\ IF platform = "win" /\ pids = <<>>
       THEN /\ AfterStop
            /\ UNCHANGED <<quit_issued, deadline>>
       ELSE /\ quit_issued' = TRUE
            /\ deadline' = now + timeout_s
            /\ pc' = "poll"
            /\ UNCHANGED <<self_state, returned_at>>
    /\ UNCHANGED <<cli, cfg, inventory, app_path, pids, exe_from_running, slept, kill_issued, kill_sent,
                   alive_at_kill, os_failed, body_hist, exit_hist, now, alive,
                   was_running, stopped_at, tick_due, enter_exc>>

\* What one poll sees still running.
StillRunning(fail) ==
    IF fail THEN {}
    ELSE IF platform = "mac" THEN alive
    ELSE {p \in Range(pids) : p \in alive}

\* One turn of `while time.time() < deadline`.
StopPoll ==
    /\ pc = "poll"
    /\ IF now < deadline
       THEN \E fail \in BOOLEAN :
              /\ os_failed' = (os_failed \/ fail)
              /\ IF StillRunning(fail) = {}
                 THEN /\ AfterStop
                      /\ UNCHANGED slept
                 ELSE /\ pc' = "sleep"
                      /\ slept' = 0
                      /\ UNCHANGED <<self_state, returned_at>>
       ELSE /\ pc' = "force"
            /\ UNCHANGED <<self_state, returned_at, slept, os_failed>>
    /\ UNCHANGED <<cli, cfg, inventory, app_path, pids, exe_from_running, deadline, quit_issued,
                   kill_issued, kill_sent, alive_at_kill, running_at_quit, body_hist,
                   exit_hist, now, alive, was_running, stopped_at, tick_due, enter_exc>>

\* Mutant of Tick: the clock does not advance while stop sleeps.
TickStalls ==
    /\ pc = "sleep"
    /\ now' = now
    /\ slept' = IF slept + 1 = SleepTicks THEN 0 ELSE slept + 1
    /\ pc' = IF slept + 1 = SleepTicks THEN "poll" ELSE "sleep"
    /\ UNCHANGED <<cli, cfg, inventory, app_path, self_state, pids, exe_from_running, deadline,
                   stop_hist, body_hist, exit_hist, alive, was_running, stopped_at,
                   tick_due, enter_exc>>

\* time.sleep(0.3), one unit at a time.
Tick ==
    /\ pc = "sleep"
    /\ now' = now + 1
    /\ slept' = IF slept + 1 = SleepTicks THEN 0 ELSE slept + 1
    /\ pc' = IF slept + 1 = SleepTicks THEN "poll" ELSE "sleep"
    /\ UNCHANGED <<cli, cfg, inventory, app_path, self_state, pids, exe_from_running, deadline,
                   stop_hist, body_hist, exit_hist, alive, was_running, stopped_at,
                   tick_due, enter_exc>>

\* Mutant of ForceTargets: nothing is force-killed.
ForceTargetsNone(fail) == {}

\* The pids the force-kill is sent to.
ForceTargets(fail) ==
    IF platform = "mac" THEN mac_pids_for(alive, fail) ELSE Range(pids)

\* The pid at which os.kill raises PermissionError (0: at none).  Stop-Process
\* runs with check=False and raises nothing.
Denied(targets) == IF platform = "mac" THEN targets \cup {0} ELSE {0}

\* Mutant of StopForce: the force-kill is sent whatever force_after_timeout is.
StopForceIgnoresFlag ==
    /\ pc = "force"
    /\ alive_at_kill' = alive
    /\ IF TRUE
       THEN \E fail \in BOOLEAN : \E denied \in Denied(ForceTargets(fail)) :
              LET targets == ForceTargets(fail)
                  sent == IF denied = 0 THEN targets
                          ELSE {p \in targets : p <= denied}
                  killed == IF platform = "win" /\ fail THEN {} ELSE sent \ {denied}
              IN  /\ kill_sent' = sent
                  /\ kill_issued' = (sent # {})
                  /\ os_failed' = (os_failed \/ fail \/ denied # 0)
                  /\ alive' = alive \ killed
                  /\ stopped_at' = IF alive # {} /\ alive \ killed = {}
                                   THEN now ELSE stopped_at
                  /\ IF denied = 0
                     THEN /\ AfterStop
                          /\ UNCHANGED <<enter_exc, seen_exc>>
                     ELSE /\ enter_exc' = "PermissionError"
                          /\ seen_exc' = "PermissionError"
                          /\ pc' = "enter_failed"
                          /\ UNCHANGED <<self_state, returned_at>>
       ELSE /\ AfterStop
            /\ UNCHANGED <<kill_sent, kill_issued, os_failed, alive, stopped_at,
                           enter_exc, seen_exc>>
    /\ UNCHANGED <<cli, cfg, inventory, app_path, stop_locals, quit_issued,
                   running_at_quit, body_hist, launches, launch_failed, now,
                   was_running, tick_due>>

\* After the loop: `if force_after_timeout:` and what follows.  On macOS
\* os.kill is called on each pid in turn and only ProcessLookupError is
\* caught: a pid that may not be signalled ends the loop, and stop, with
\* PermissionError.
StopForce ==
    /\ pc = "force"
    /\ alive_at_kill' = alive
    /\ IF force_after_timeout
       THEN \E fail \in BOOLEAN : \E denied \in Denied(ForceTargets(fail)) :
              LET targets == ForceTargets(fail)
                  sent == IF denied = 0 THEN targets
                          ELSE {p \in targets : p <= denied}
                  killed == IF platform = "win" /\ fail THEN {} ELSE sent \ {denied}
              IN  /\ kill_sent' = sent
                  /\ kill_issued' = (sent # {})
                  /\ os_failed' = (os_failed \/ fail \/ denied # 0)
                  /\ alive' = alive \ killed
                  /\ stopped_at' = IF alive # {} /\ alive \ killed = {}
                                   THEN now ELSE stopped_at
                  /\ IF denied = 0
                     THEN /\ AfterStop
                          /\ UNCHANGED <<enter_exc, seen_exc>>
                     ELSE /\ enter_exc' = "PermissionError"
                          /\ seen_exc' = "PermissionError"
                          /\ pc' = "enter_failed"
                          /\ UNCHANGED <<self_state, returned_at>>
       ELSE /\ AfterStop
            /\ UNCHANGED <<kill_sent, kill_issued, os_failed, alive, stopped_at,
                           enter_exc, seen_exc>>
    /\ UNCHANGED <<cli, cfg, inventory, app_path, stop_locals, quit_issued,
                   running_at_quit, body_hist, launches, launch_failed, now,
                   was_running, tick_due>>

\* The operating system: a process of the application exits.
ProcExits ==
    /\ pc \in {"quit", "poll", "sleep", "force"}
    /\ \E p \in alive :
          /\ alive' = alive \ {p}
          /\ stopped_at' = IF alive = {p} THEN now ELSE stopped_at
          /\ tick_due' = IF alive # {p} THEN tick_due
                         ELSE IF pc = "sleep" THEN now + (SleepTicks - slept)
                         ELSE now
    /\ UNCHANGED <<cli, cfg, inventory, app_path, self_state, stop_locals, stop_hist, body_hist,
                   exit_hist, pc, now, was_running, enter_exc>>

\* The body of `with AppRestarter("Camera Hub"):` runs and ends.
Work ==
    /\ pc = "active"
    /\ \E how \in {"normal", "return", "raise"}, e \in WorkErrors :
          /\ work_ran' = how
          /\ work_exc' = IF how = "raise" THEN e ELSE None
    /\ running_at_work' = alive
    /\ session_at_work' = <<should_restart, launch_info>>
    /\ pc' = "exiting"
    /\ UNCHANGED <<cli, cfg, inventory, app_path, self_state, stop_locals, stop_hist, exit_hist,
                   now, alive, was_running, stopped_at, tick_due, enter_exc>>

\* Mutant of Exit: __exit__ clears the session once it has used it.
ExitDiscardsSession ==
    /\ pc = "exiting"
    /\ \E ok \in BOOLEAN :
          LET attempt == ExitLaunches(should_restart, launch_info)
              try_exc == IF attempt /\ ~ok THEN "CalledProcessError" ELSE None
          IN  /\ launches' = IF attempt THEN Append(launches, launch_info) ELSE launches
              /\ launch_failed' = (attempt /\ ~ok)
              /\ seen_exc' = WithPropagates(work_exc, ExitOutcome(try_exc))
    /\ pc' = "done"
    /\ should_restart' = FALSE
    /\ launch_info' = NoInfo
    /\ UNCHANGED <<cli, cfg, inventory, app_path, stop_locals, stop_hist, body_hist,
                   now, alive, was_running, stopped_at, tick_due, enter_exc>>

\* __exit__, and what the with-statement lets out.
Exit ==
    /\ pc = "exiting"
    /\ \E ok \in BOOLEAN :
          LET attempt == ExitLaunches(should_restart, launch_info)
              try_exc == IF attempt /\ ~ok THEN "CalledProcessError" ELSE None
          IN  /\ launches' = IF attempt THEN Append(launches, launch_info) ELSE launches
              /\ launch_failed' = (attempt /\ ~ok)
              /\ seen_exc' = WithPropagates(work_exc, ExitOutcome(try_exc))
    /\ pc' = "done"
    /\ UNCHANGED <<cli, cfg, inventory, app_path, self_state, stop_locals, stop_hist, body_hist,
                   now, alive, was_running, stopped_at, tick_due, enter_exc>>

Next ==
    \/ MacEnter
    \/ WinEnter
    \/ OtherEnter
    \/ StopQuit
    \/ StopPoll
    \/ Tick
    \/ StopForce
    \/ ProcExits
    \/ Work
    \/ Exit

Spec == Init /\ [][Next]_vars

\* The steps of stop itself.  stop is one blocking thread: each OS command
\* returns and each sleep ends, so a step of stop that can be taken is taken.
StopStep == StopQuit \/ StopPoll \/ Tick \/ StopForce

LiveSpec == Spec /\ WF_vars(StopStep)

\* ------------------------------------------------------------------ locate
\* Scope entry on macOS with whatever Spotlight prints, the application not
\* running.
LocateInit ==
    /\ platform = "mac"
    /\ timeout_s = 0
    /\ force_after_timeout = TRUE
    /\ restart_if_not_running = FALSE
    /\ alive = {}
    /\ hits \in UNION {[1..n -> Hits] : n \in 0..MaxHits}
    /\ SessionInit
    /\ pc = "idle"
    /\ cmd = None
    /\ store \in {s \in EmptyStores : ~s.dir_exists /\ ~s.settings.exists}
    /\ prev = store
    /\ last = NoCmd

LocateNext == MacEnter

LocateSpec == LocateInit /\ [][LocateNext]_vars

\* ------------------------------------------------ the commands on the store
\* cmd_add, called on the store as it is.
AddStep ==
    \E a \in AddArgsSet :
        /\ AddInBounds(store, a)
        /\ LET o == cmd_add(store, a)
           IN  /\ store' = o.store
               /\ last' = AddRecord(a, o.rc)
        /\ prev' = store
        /\ UNCHANGED <<cmd, session>>

\* cmd_del, called on the store as it is.
DelStep ==
    \E a \in DelArgsSet, undeletable \in Undeletable(store.files) :
        /\ LET o == cmd_del(store, a, undeletable)
           IN  /\ store' = o.store
               /\ last' = DelRecord(a, o.rc)
        /\ prev' = store
        /\ UNCHANGED <<cmd, session>>

\* A sequence of add and del commands from an empty directory and empty
\* settings.
StoreInit ==
    /\ hits \in {<<>>, <<CameraHubNotes>>, <<CameraHubApp>>}
    /\ SessionInit
    /\ platform # "mac" => hits = <<>>
    /\ pc = "idle"
    /\ platform = "other"
    /\ timeout_s = 0
    /\ force_after_timeout
    /\ ~restart_if_not_running
    /\ cmd = None
    /\ store \in EmptyStores
    /\ prev = store
    /\ last = NoCmd

StoreNext ==
    \/ AddStep
    \/ DelStep

StoreSpec == StoreInit /\ [][StoreNext]_vars

\* ----------------------------------------------------- the default index
\* A directory some adds have filled (with --index or without), and possibly
\* a foreign JSON file.
IndexStores ==
    {[dir_exists |-> TRUE,
      files |-> [f \in DOMAIN g |->
                   IF f = "notes.json" THEN Foreign
                   ELSE [GUID |-> IF f = "AB.json" THEN "AB" ELSE "CD",
                         friendlyName |-> "Intro", index |-> g[f]]],
      settings |-> [exists |-> TRUE, has_key |-> TRUE,
                    lst |-> SelectSeq(<<"AB", "CD">>,
                                      LAMBDA u : (u \o ".json") \in DOMAIN g)]] :
        g \in UNION {[S -> -1..(MaxIndex - 1)] :
                        S \in SUBSET {"AB.json", "CD.json", "notes.json"}}}

\* cmd_add without --index, called on the store as it is.
AddDefaultIndex ==
    \E a \in AddArgsSet :
        /\ a.index = <<>>
        /\ AddInBounds(store, a)
        /\ LET o == cmd_add(store, a)
           IN  /\ store' = o.store
               /\ last' = [cmd |-> "add", friendly_name |-> a.friendly_name,
                           yes |-> FALSE, dry_run |-> a.dry_run, rc |-> o.rc,
                           index |-> AddIndex(ensure_dir(store), a)]
        /\ prev' = store
        /\ UNCHANGED <<cmd, session>>

IndexInit ==
    /\ platform = "other"
    /\ timeout_s = 0
    /\ force_after_timeout = TRUE
    /\ restart_if_not_running = FALSE
    /\ hits = <<>>
    /\ SessionInit
    /\ pc = "idle"
    /\ cmd = None
    /\ store \in IndexStores
    /\ prev = store
    /\ last = NoCmd

IndexNext == AddDefaultIndex

IndexSpec == IndexInit /\ [][IndexNext]_vars

\* ------------------------------------------------------------------- main
\* Mutant of UsesScope: only add is bracketed.
UsesScopeOnlyAdd(c) == c = "add"

\* main: the commands whose branch is `with AppRestarter("Camera Hub"):`.
UsesScope(c) == c \in {"add", "del", "gen"}

\* What the branch of main for command c does to the store st: the store it
\* leaves, the code it returns (-1: none, it raised), the error it raised.
BodyOutcomes(c, st) ==
    CASE c = "add" ->
            {[store |-> st, rc |-> -1, exc |-> "OSError",
              last |-> [NoCmd EXCEPT !.cmd = "add"]]}
            \cup
            {[store |-> cmd_add(st, a).store, rc |-> cmd_add(st, a).rc,
              exc |-> None, last |-> AddRecord(a, cmd_add(st, a).rc)] :
                a \in {b \in AddArgsSet : AddInBounds(st, b)}}
      [] c = "gen" ->
            {[store |-> st, rc |-> -1, exc |-> "LLMError",
              last |-> [NoCmd EXCEPT !.cmd = "gen"]]}
            \cup
            {[store |-> cmd_add(st, a).store, rc |-> cmd_add(st, a).rc,
              exc |-> None,
              last |-> [AddRecord(a, cmd_add(st, a).rc) EXCEPT !.cmd = "gen"]] :
                a \in {b \in GenArgsSet : AddInBounds(st, b)}}
      [] c = "del" ->
            {[store |-> cmd_del(st, a, u).store, rc |-> cmd_del(st, a, u).rc,
              exc |-> None, last |-> DelRecord(a, cmd_del(st, a, u).rc)] :
                a \in DelArgsSet, u \in Undeletable(st.files)}
      [] OTHER ->
            {[store |-> ensure_dir(st), rc |-> r, exc |-> None,
              last |-> [NoCmd EXCEPT !.cmd = "ls", !.rc = r]] : r \in {0, 2}}

\* main, for add, del and gen: up to the with-statement.
MainScoped ==
    /\ pc = "main"
    /\ UsesScope(cmd)
    /\ pc' = "idle"
    /\ UNCHANGED <<cli, cfg, inventory, app_path, self_state, stop_locals, stop_hist,
                   body_hist, exit_hist, now, alive, was_running, stopped_at,
                   tick_due, enter_exc>>

\* main, for ls: the whole command, no AppRestarter.
MainUnscoped ==
    /\ pc = "main"
    /\ ~UsesScope(cmd)
    /\ \E o \in BodyOutcomes(cmd, store) :
          /\ store' = o.store
          /\ last' = o.last
          /\ seen_exc' = o.exc
    /\ prev' = store
    /\ pc' = "returned"
    /\ UNCHANGED <<cmd, cfg, inventory, app_path, self_state, stop_locals, stop_hist,
                   body_hist, launches, launch_failed, now, alive, was_running,
                   stopped_at, tick_due, enter_exc>>

\* The body of the with-statement of main: the command, up to its return.
CliBody ==
    /\ pc = "active"
    /\ \E o \in BodyOutcomes(cmd, store) :
          /\ store' = o.store
          /\ last' = o.last
          /\ work_ran' = IF o.exc = None THEN "return" ELSE "raise"
          /\ work_exc' = o.exc
    /\ prev' = store
    /\ running_at_work' = alive
    /\ session_at_work' = <<should_restart, launch_info>>
    /\ pc' = "exiting"
    /\ UNCHANGED <<cmd, cfg, inventory, app_path, self_state, stop_locals, stop_hist,
                   exit_hist, now, alive, was_running, stopped_at, tick_due,
                   enter_exc>>

\* A store two adds have filled: two prompts whose names differ in case only.
TwoPrompts ==
    [dir_exists |-> TRUE,
     files |-> [f \in {"AB.json", "CD.json"} |->
                  IF f = "AB.json"
                  THEN [GUID |-> "AB", friendlyName |-> "Intro", index |-> 1]
                  ELSE [GUID |-> "CD", friendlyName |-> "intro ", index |-> 2]],
     settings |-> [exists |-> TRUE, has_key |-> TRUE, lst |-> <<"AB", "CD">>]]

\* One run of the CLI: AppRestarter("Camera Hub") takes the defaults of
\* __init__ for its flags; its timeout is the longest one modelled.
CliInit ==
    /\ hits \in {<<>>, <<CameraHubNotes>>, <<CameraHubApp>>}
    /\ SessionInit
    /\ platform # "mac" => hits = <<>>
    /\ pc = "main"
    /\ timeout_s = MaxTimeout
    /\ force_after_timeout
    /\ ~restart_if_not_running
    /\ cmd \in {"add", "del", "gen", "ls"}
    /\ store \in {s \in EmptyStores : ~s.dir_exists /\ ~s.settings.exists}
                  \cup {TwoPrompts}
    /\ prev = store
    /\ last = NoCmd

CliNext ==
    \/ MainScoped
    \/ MainUnscoped
    \/ MacEnter
    \/ WinEnter
    \/ OtherEnter
    \/ StopQuit
    \/ StopPoll
    \/ Tick
    \/ StopForce
    \/ ProcExits
    \/ CliBody
    \/ Exit

CliSpec == CliInit /\ [][CliNext]_vars

\* ------------------------------------------------------------------ claims
Entered == pc \in {"active", "exiting", "done"}
WorkStarted == pc \in {"exiting", "done"}

\* C1: when the with-body raises an error E, the invoker observes exactly E
\* once __exit__ has run, whether or not a relaunch was attempted and whether
\* or not it failed.
C1_CallerErrorPropagates ==
    (pc = "done" /\ work_exc # None) => seen_exc = work_exc

C1_Witness ==
    /\ pc = "done"
    /\ work_exc = "OSError"
    /\ launch_failed
    /\ seen_exc = "OSError"

\* C2: when the with-body ends without error and the launch of __exit__
\* fails, the invoker observes no error and the launch was attempted once.
C2_LaunchFailureSwallowed ==
    (pc = "done" /\ work_exc = None /\ launch_failed)
        => (seen_exc = None /\ Len(launches) = 1)

C2_Witness ==
    /\ pc = "done"
    /\ work_ran = "return"
    /\ launch_failed
    /\ seen_exc = None

\* C3: a session launches at most once, only at exit, and only if an instance
\* was observed running at entry or restart_if_not_running is set.
C3_AtMostOneLaunch ==
    /\ Len(launches) <= 1
    /\ launches # <<>> => (was_running # {} \/ restart_if_not_running)
    /\ pc # "done" => launches = <<>>

C3_Witness ==
    /\ pc = "done"
    /\ was_running = {}
    /\ restart_if_not_running
    /\ Len(launches) = 1

\* C4: a session that reached Active with should_restart = TRUE attempts, at
\* exit, the launch of the plan recorded at entry, however the body ended.
C4_ExitLaunchesRecordedPlan ==
    (pc = "done" /\ session_at_work[1]) => launches = <<session_at_work[2]>>

C4_Witness ==
    /\ pc = "done"
    /\ session_at_work[1]
    /\ work_ran = "raise"
    /\ launches = <<session_at_work[2]>>

\* C5: after a successful entry, should_restart is TRUE when an instance was
\* observed running and equals restart_if_not_running otherwise.
C5_ShouldRestart ==
    Entered => (should_restart = (was_running # {} \/ restart_if_not_running))

C5_Witness ==
    /\ pc = "active"
    /\ was_running = {}
    /\ restart_if_not_running
    /\ should_restart

\* Nothing matches the search text: no running instance and nothing installed.
NothingMatches ==
    /\ platform \in {"mac", "win"}
    /\ alive = {}
    /\ was_running = {}
    /\ ~mdfind_hit
    /\ ~has_lnk
    /\ ~has_uwp

\* C6 as stated: on both platforms, when nothing matches, entry fails with
\* NotFound, the body never runs and nothing is launched (here even granted
\* that the shell interpreter is there).
C6_Original ==
    (NothingMatches /\ has_ps /\ pc # "idle")
        => /\ pc = "enter_failed"
           /\ enter_exc = "NotFound"
           /\ work_ran = "none"
           /\ launches = <<>>

\* C6 as amended: on macOS, when Spotlight has no application hit, entry fails
\* with NotFound, the body never runs and nothing is launched; on Windows,
\* when nothing matches and PowerShell is there, entry raises nothing: it
\* records the plan ("alias", search text) and should_restart =
\* restart_if_not_running, and a launch is attempted at exit only if that flag
\* is set.
C6_NotFoundOnMacAliasOnWin ==
    /\ (platform = "mac" /\ ~mdfind_hit /\ pc # "idle")
          => /\ pc = "enter_failed"
             /\ enter_exc = "NotFound"
             /\ work_ran = "none"
             /\ launches = <<>>
    /\ (platform = "win" /\ has_ps /\ NothingMatches /\ pc # "idle")
          => /\ Entered
             /\ enter_exc = None
             /\ launch_info = <<"win", "alias", SearchText>>
             /\ should_restart = restart_if_not_running
             /\ launches # <<>> => restart_if_not_running

C6_Witness ==
    /\ platform = "win"
    /\ NothingMatches
    /\ pc = "done"
    /\ work_ran # "none"
    /\ launches = <<<<"win", "alias", SearchText>>>>

\* C7: when entry fails with NotFound or IdentityUnresolvable, no quit or
\* kill request has been sent, the body has not run, nothing has been
\* launched, and the session stays failed: it never becomes Active.
C7_EntryFailsBeforeQuit ==
    /\ [](enter_exc \in {"NotFound", "IdentityUnresolvable"}
            => /\ pc = "enter_failed"
               /\ ~quit_issued
               /\ ~kill_issued
               /\ work_ran = "none"
               /\ launches = <<>>)
    /\ [][pc = "enter_failed" => pc' = "enter_failed"]_vars

C7_Witness ==
    /\ pc = "enter_failed"
    /\ enter_exc = "IdentityUnresolvable"
    /\ mdls_out = "(null)"
    /\ alive # {}

C9_StopOnNotRunning ==
    (returned_at # -1 /\ running_at_quit = {})
        => (~kill_issued /\ enter_exc = None)

\* C10: if the last running instance exits at a time t before the deadline,
\* stop returns at the first poll tick at or after t and sends no force-kill.
C10_StopsAtNextTick ==
    (returned_at # -1 /\ running_at_quit # {} /\ stopped_at # -1
        /\ stopped_at < deadline /\ ~os_failed)
        => (~kill_issued /\ returned_at = tick_due)

\* Stop went through its force step: it returned at or after the deadline.
ForceStepRan == quit_issued /\ returned_at # -1 /\ returned_at >= deadline

\* C11: when the timeout elapses with force_after_timeout = TRUE, the
\* force-kill is sent to exactly the matched processes still alive then: to
\* each of them and to none that has already exited.
C11_ForceKillsExactlyAlive ==
    (ForceStepRan /\ force_after_timeout /\ ~os_failed)
        => kill_sent = (was_running \cap alive_at_kill)

\* C12: a force-kill is sent only after the graceful request, only once the
\* whole timeout has elapsed, and only when force_after_timeout is TRUE; with
\* the flag FALSE stop returns at the timeout and kills nothing, so whatever
\* survived the graceful request is still running.
C12_ForceOnlyAfterTimeout ==
    /\ kill_issued
          => /\ quit_issued
             /\ force_after_timeout
             /\ now >= deadline
    /\ ~force_after_timeout => (kill_sent = {} /\ ~kill_issued)
    /\ (ForceStepRan /\ ~force_after_timeout) => alive = alive_at_kill

C12_Witness ==
    /\ pc = "active"
    /\ ForceStepRan
    /\ ~force_after_timeout
    /\ timeout_s > 0
    /\ alive # {}
    /\ alive = was_running

InStop == pc \in {"quit", "poll", "sleep", "force"}

\* C13: stop always terminates: once called it returns (or raises), whether
\* or not the application ever exits, so scope entry cannot wait forever.
C13_StopTerminates == InStop ~> (~InStop /\ (returned_at # -1 \/ enter_exc # None))

C13_Witness ==
    /\ pc = "active"
    /\ ForceStepRan
    /\ timeout_s = MaxTimeout
    /\ ~os_failed
    /\ alive = was_running
    /\ alive # {}

\* C14: on Windows the recorded launch plan is the first that applies of: the
\* executable path captured from a running instance (even when a shortcut or
\* a package also matches), the target of a matching Start Menu shortcut, the
\* AppUserModelID of a matching installed app, the search text itself; a
\* step that yields nothing falls through, so there is always one plan.
C14_LaunchPlanOrder ==
    (platform = "win" /\ Entered)
        => /\ Len(launch_info) = 3
           /\ launch_info =
                 IF exe_from_running # None THEN <<"win", "exe", exe_from_running>>
                 ELSE IF has_lnk THEN <<"win", "exe", LnkTarget>>
                 ELSE IF has_uwp THEN <<"win", "uwp", AppUserModelId>>
                 ELSE <<"win", "alias", SearchText>>

C14_Witness ==
    /\ platform = "win"
    /\ pc = "active"
    /\ has_lnk
    /\ has_uwp
    /\ exe_from_running = PathOf(1)
    /\ launch_info = <<"win", "exe", PathOf(1)>>

\* C15: no failure of a single OS query or command is surfaced by scope
\* entry: on a supported platform entry raises nothing but NotFound,
\* IdentityUnresolvable or the missing-PowerShell error.
C15_OnlyContractErrors ==
    platform \in {"mac", "win"}
        => enter_exc \in {None, "NotFound", "IdentityUnresolvable",
                          "PowerShellNotFound"}

\* C16: in the CLI, add, del and gen change the prompt directory and the
\* settings file only inside the scope, after __enter__ has returned and
\* before the relaunch of __exit__; once such a command is back, whatever it
\* returned or raised, the application that was stopped has been launched
\* once; ls sends no quit, kill or launch request.
C16_MutationsInsideScope ==
    /\ [][(cmd \in {"add", "del", "gen"} /\ store' # store)
            => (pc = "active" /\ pc' = "exiting" /\ launches' = <<>>)]_vars
    /\ []((cmd \in {"add", "del", "gen"} /\ pc = "done" /\ was_running # {})
            => (work_ran # "none" /\ Len(launches) = 1))
    /\ [](cmd = "ls"
            => (~quit_issued /\ ~kill_issued /\ launches = <<>> /\ ~Entered))

C16_Witness ==
    /\ cmd = "del"
    /\ pc = "done"
    /\ last.rc = 3
    /\ store.files = prev.files
    /\ was_running # {}
    /\ quit_issued
    /\ Len(launches) = 1

\* C17: from an empty directory and empty settings, after any sequence of add
\* and del commands the library list of the settings holds exactly the
\* upper-cased GUIDs of the prompt files present, each once.
C17_SettingsListMatchesFiles ==
    LET lst == settings_list(store.settings)
    IN  /\ Range(lst) = {upper(store.files[f].GUID) : f \in DOMAIN store.files}
        /\ Len(lst) = Cardinality(DOMAIN store.files)
        /\ \A i, j \in DOMAIN lst : lst[i] = lst[j] => i = j

C17_Witness ==
    /\ last.cmd = "del"
    /\ last.rc = 0
    /\ DOMAIN prev.files = {"AB.json", "CD.json"}
    /\ DOMAIN store.files = {"CD.json"}
    /\ settings_list(store.settings) = <<"CD">>

\* C18: a del by --name without --yes that finds more than one prompt of that
\* name deletes nothing, leaves the settings alone and returns 3.
C18_NoDeleteOfSeveralWithoutYes ==
    (/\ last.cmd = "del"
     /\ last.friendly_name # None
     /\ ~last.yes
     /\ Cardinality(find_matches(prev.files, None, last.friendly_name, None)) > 1)
        => /\ store.files = prev.files
           /\ store.settings = prev.settings
           /\ last.rc = 3

\* C19: an add with --dry-run creates or overwrites no prompt file and does
\* not create or modify the settings, whatever its other arguments.
C19_DryRunLeavesStore ==
    (last.cmd = "add" /\ last.dry_run)
        => /\ store.files = prev.files
           /\ store.settings = prev.settings

C19_Witness ==
    /\ last.cmd = "add"
    /\ last.dry_run
    /\ last.rc = 0
    /\ ~prev.dir_exists
    /\ store.dir_exists
    /\ store.files = EmptyFiles
    /\ ~store.settings.exists

\* C20: should_restart and launch_info are written only by __enter__: once
\* the scope is entered no step changes them, neither the body (however it
\* ends) nor __exit__, and what __exit__ launches is the recorded plan.
C20_SessionWrittenOnlyAtEntry ==
    /\ [][Entered => UNCHANGED <<should_restart, launch_info>>]_vars
    /\ [](launches # <<>> => (should_restart /\ launches = <<launch_info>>))

C20_Witness ==
    /\ pc = "done"
    /\ work_ran = "raise"
    /\ should_restart
    /\ launch_info # NoInfo
    /\ launches = <<launch_info>>
    /\ session_at_work = <<should_restart, launch_info>>

\* C21: on Windows, when processes match at entry, the path kept for the
\* relaunch is that of the first matched pid, in query order, whose
\* ExecutablePath can be read; it is read before the close request is sent
\* and never changes afterwards; the recorded plan is ("exe", that path), or
\* comes from the shortcut, package and name fallbacks when no matched pid
\* exposes a path.
C21_FirstDiscoverablePath ==
    /\ []((platform = "win" /\ pids # <<>>)
            => LET withPath == {i \in DOMAIN pids : pids[i] \in exe_path_known}
                   first == IF withPath = {} THEN None
                            ELSE PathOf(pids[Min(withPath)])
               IN  /\ exe_from_running = first
                   /\ Entered =>
                         launch_info =
                            IF first # None THEN <<"win", "exe", first>>
                            ELSE IF has_lnk THEN <<"win", "exe", LnkTarget>>
                            ELSE IF has_uwp THEN <<"win", "uwp", AppUserModelId>>
                            ELSE <<"win", "alias", SearchText>>)
    /\ [][quit_issued' => exe_from_running' = exe_from_running]_vars

C21_Witness ==
    /\ platform = "win"
    /\ pc = "active"
    /\ pids = <<1, 2>>
    /\ exe_path_known = {2}
    /\ quit_issued
    /\ launch_info = <<"win", "exe", PathOf(2)>>

\* Hit h is better than hit g under the criteria taken in priority order:
\* under /Applications/ or /System/Applications/, then stem starting with the
\* search text (ignoring case), then stem containing it, then shorter path.
Preferred(h, g) ==
    LET s == lower(SearchText)
        a(p) == in_std_dir(p)
        b(p) == startswith(lower(p.stem), s)
        c(p) == contains(lower(p.stem), s)
        d(p) == Len(path_str(p))
    IN  \/ a(h) /\ ~a(g)
        \/ a(h) = a(g) /\ b(h) /\ ~b(g)
        \/ a(h) = a(g) /\ b(h) = b(g) /\ c(h) /\ ~c(g)
        \/ a(h) = a(g) /\ b(h) = b(g) /\ c(h) = c(g) /\ d(h) < d(g)

\* C22: on macOS locate fails with NotFound exactly when no hit ends in
\* ".app"; otherwise it returns a hit ending in ".app" to which no other such
\* hit is preferred.
C22_LocatePicksBest ==
    (platform = "mac" /\ pc \notin {"idle", "main"})
        => LET apps == {hits[i] : i \in {j \in DOMAIN hits : hits[j].ext = ".app"}}
           IN  /\ (enter_exc = "NotFound") <=> (apps = {})
               /\ apps = {} => app_path = NoPath
               /\ apps # {} => /\ app_path \in apps
                               /\ \A h \in apps : ~Preferred(h, app_path)

C22_Witness ==
    /\ platform = "mac"
    /\ pc = "active"
    /\ hits = <<[dir |-> "/Users/u/", stem |-> "Camera Hub", ext |-> ".app"],
                [dir |-> "/System/Applications/", stem |-> "Photo Booth",
                 ext |-> ".app"]>>
    /\ app_path = hits[2]

\* C23: an add without --index gives the new record the largest index of the
\* valid records present plus one, or 1 when there is none; files that are no
\* valid prompt records do not count.
C23_DefaultIndexIsMaxPlusOne ==
    (last.cmd = "add" /\ "index" \in DOMAIN last /\ last.rc = 0)
        => LET idxs == {prev.files[f].index : f \in ValidFiles(prev.files)}
           IN  last.index = IF idxs = {} THEN 1 ELSE Max(idxs) + 1

\* The processes the scope sent a quit, close or kill request to.
StoppedByScope ==
    (IF ~quit_issued THEN {}
     ELSE IF platform = "win" THEN Range(pids) ELSE running_at_quit)
        \cup kill_sent

\* C24: what is launched at exit is what was stopped at entry: when the plan
\* launched is an executable path captured from a running instance, every
\* process that ended after the scope closed or killed it is an instance of
\* that executable (on macOS: the bundle launched is the one whose processes
\* were quit).
C24_RelaunchesWhatWasStopped ==
    (pc = "done" /\ launches # <<>>)
        => IF platform = "mac" THEN launches[1] = <<"mac", BundleId>>
           ELSE exe_from_running # None
                   => \A p \in StoppedByScope \ alive :
                         launches[1] = <<"win", "exe", PathOf(p)>>

\* C25: when __enter__ raises, no quit, close or kill request has been sent.
C25_RaisingEntryStopsNothing ==
    pc = "enter_failed" => (~quit_issued /\ ~kill_issued)

====
